---- MODULE Spec2Model ----
(***************************************************************************)
(* Streaming chunked ingestion pipeline of genprop:                        *)
(*   - the delimited-text stream processor (process_csv_async),            *)
(*   - the geodatabase stream processor (process_gdb_async),               *)
(*   - the batch store operations of batch_tracker.py,                     *)
(*   - the publisher with bounded retry (publish_message).                 *)
(*                                                                         *)
(* Spec     : one stream (CSV or GDB) running against its batch record.    *)
(* SpecPub  : one publish_message call, one loop iteration per step.       *)
(***************************************************************************)
EXTENDS Integers, Sequences, FiniteSets, TLC

\* ------------------------------------------------------------------ bounds
MaxRows == 3       \* rows / features in the source
MaxChunk == 3      \* chunk_size ranges over 1..MaxChunk
MaxAttempts == 3   \* max_retries ranges over 0..MaxAttempts
MaxDelay == 2      \* retry_delay ranges over 1..MaxDelay
MaxConns == 3      \* connections the publisher may create
NumUploads == 2    \* geodatabase uploads in flight
MaxPools == 3      \* database pools created in one run
MaxDelta == 2      \* largest count handed to a store call

VARIABLES
    path,             \* "csv" | "gdb": which processor runs
    args,             \* batch_id, source_name, layer_name the processor got
    source_type,      \* "PARCEL" | "RETR" | "DFI"
    columns,          \* header of the CSV file (set of column names)
    total_rows,       \* rows the reader yields / len(gdf)
    chunk_size,       \* chunk_size argument
    pc,               \* position of the processor coroutine
    chunk_start,      \* index label of the first row of the current chunk
    chunk_len,        \* len(chunk)
    pos,              \* rows of the current chunk already iterated
    chunk_failed,     \* chunk_failed
    total_processed,  \* total_processed
    total_failed,     \* total_failed
    outcomes,         \* what happened to each row so far, in file order
    published,        \* messages handed to publish_message, in order
    tracker,          \* calls made to the batch store, in order
    batch,            \* the import_batches row of this upload
    cause,            \* exception caught by the processor's outer except
    exc,              \* exception leaving the processor
    task,             \* state of the background task around the processor
    validations,      \* runs of validate_csv_columns by this stream
    pub,              \* one publish_message invocation
    vc,               \* one validate_csv_columns invocation
    up,               \* the geodatabase uploads in flight
    fs,               \* the scratch storage under TEMP_STORAGE_PATH/gdb
    mq,               \* the publisher's cached connection and channel
    st,               \* the import_batches table and the tasks writing to it
    crs,              \* one transform_to_wisconsin_crs invocation
    enc,              \* one detect_encoding invocation
    db                \* the database pool global and the tasks using it

streamVars == <<path, args, source_type, columns, total_rows, chunk_size, pc,
                chunk_start, chunk_len, pos, chunk_failed, total_processed,
                total_failed, outcomes, published, tracker, batch, cause,
                exc, task, validations>>
otherVars == <<vc, up, fs, mq, st, crs, enc, db>>
vars == <<path, args, source_type, columns, total_rows, chunk_size, pc,
          chunk_start, chunk_len, pos, chunk_failed, total_processed,
          total_failed, outcomes, published, tracker, batch, cause,
          exc, task, validations, pub, vc, up, fs, mq, st, crs, enc, db>>

Min_First(a, b) == a

Min(a, b) == IF a < b THEN a ELSE b

\* ---------------------------------------------------------- schema validator
SourceTypes == {"PARCEL", "RETR", "DFI"}

\* Column names a header may carry besides STATEID.
HeaderNames == {"geometry_wkt", "GEOMETRY_TYPE"}

\* Column names a sample handed to validate_csv_columns may carry: the
\* geometry fields in several spellings, one of them padded with a blank, and
\* an unrelated column.
ColumnNames ==
    {"geometry_wkt", "GEOMETRY_WKT", "Geometry_Wkt", "geometry_type",
     "Geometry_Type", " geometry_type", "STATEID"}

Upper_Identity(c) == c

\* str.upper() on the column names of the model.
Upper(c) ==
    CASE c = "geometry_wkt" -> "GEOMETRY_WKT"
      [] c = "Geometry_Wkt" -> "GEOMETRY_WKT"
      [] c = "geometry_type" -> "GEOMETRY_TYPE"
      [] c = "Geometry_Type" -> "GEOMETRY_TYPE"
      [] c = " geometry_type" -> " GEOMETRY_TYPE"
      [] c = "stateid" -> "STATEID"
      [] OTHER -> c

RequiredFields == {"geometry_wkt", "geometry_type"}

MissingColumns_OnlyWkt(cols, stype) ==
    IF stype = "PARCEL"
    THEN {Upper("geometry_wkt")} \ {Upper(c) : c \in cols}
    ELSE {}

\* validate_csv_columns: the set `missing`; the function raises iff it is
\* non-empty.
MissingColumns(cols, stype) ==
    IF stype = "PARCEL"
    THEN {Upper(f) : f \in RequiredFields} \ {Upper(c) : c \in cols}
    ELSE {}

\* ------------------------------------------------------------- exceptions
NoExc == [kind |-> "none", missing |-> {}]
IoError == [kind |-> "io", missing |-> {}]
StoreError == [kind |-> "store", missing |-> {}]
SchemaError(missing) == [kind |-> "schema", missing |-> missing]

\* ------------------------------------------------------------ batch store
\* Optional[int]: <<>> is None, <<v>> is v.
Coalesce(o) == IF o = <<>> THEN 0 ELSE o[1]

\* The row create_batch inserts (counters take the column defaults).
NewBatch ==
    [status |-> "processing", processed_records |-> 0, new_records |-> 0,
     duplicate_records |-> 0, failed_records |-> 0,
     completed_at |-> "NULL", error |-> <<>>]

UpdateBatchProgress_Overwrite(b, processed_count, new_count, duplicate_count, failed_count) ==
    [b EXCEPT !.processed_records = processed_count,
              !.new_records = Coalesce(new_count),
              !.duplicate_records = Coalesce(duplicate_count),
              !.failed_records = Coalesce(failed_count)]

\* The UPDATE of update_batch_progress, applied to the row it selects.
UpdateBatchProgress(b, processed_count, new_count, duplicate_count, failed_count) ==
    [b EXCEPT !.processed_records = @ + processed_count,
              !.new_records = @ + Coalesce(new_count),
              !.duplicate_records = @ + Coalesce(duplicate_count),
              !.failed_records = @ + Coalesce(failed_count)]

CompleteBatchWrite_SuccessfulOnly(b, total) ==
    [b EXCEPT !.status = "completed", !.completed_at = "set",
              !.processed_records = total - b.failed_records]

CompleteBatchWrite(b, total) ==
    [b EXCEPT !.status = "completed", !.completed_at = "set",
              !.processed_records = total]

FailBatchWrite_ResetsCounters(b, msg) ==
    [b EXCEPT !.status = "failed", !.completed_at = "set", !.error = <<msg>>,
              !.processed_records = 0, !.new_records = 0,
              !.duplicate_records = 0, !.failed_records = 0]

FailBatchWrite_NoTimestamp(b, msg) ==
    [b EXCEPT !.status = "failed", !.error = <<msg>>]

FailBatchWrite(b, msg) ==
    [b EXCEPT !.status = "failed", !.completed_at = "set", !.error = <<msg>>]

\* What one store call can do: return; raise with nothing written; raise
\* after the UPDATE was committed (command timeout or connection loss after
\* the commit, failure while releasing the connection).
StoreOutcomes == {"ok", "error", "lost_ack"}
Applied(so) == so \in {"ok", "lost_ack"}
Raised(so) == so \in {"error", "lost_ack"}

TrackerCall(op, so, p, n, f, msg) ==
    [op |-> op, outcome |-> so, processed |-> p, new |-> n, failed |-> f,
     msg |-> msg]

\* ------------------------------------------------------- stream processor
\* What can happen to one row inside the per-row try block.
RowOutcomes(p) ==
    {"published", "publish_false", "publish_raise", "invalid"}
        \cup (IF p = "gdb" THEN {"empty_geometry"} ELSE {})

\* Rows for which publish_message is called.
PublishCalled(o) == o \in {"published", "publish_false", "publish_raise"}

RowFailed_RaiseNotCounted(o) == o \notin {"published", "publish_raise"}

RowFailed_EmptyNotCounted(o) == o \notin {"published", "empty_geometry"}

RowFailed_IgnoresPublishResult(o) == o \in {"publish_raise", "invalid", "empty_geometry"}

\* Rows that add one to chunk_failed.
RowFailed(o) == o /= "published"

ChunkSuccessful_NoSubtract(chunk_processed, failed) == chunk_processed

ChunkSuccessful(chunk_processed, failed) == chunk_processed - failed

\* source_row_number of the message; idx is the DataFrame index label of the
\* row, which both readers keep global across chunks.
CsvRowNumber(processed, idx) == processed + idx + 1

GdbRowNumber_ChunkLocal(processed, idx) == idx - processed + 1

GdbRowNumber(processed, idx) == idx + 1

RowNumber(p, processed, idx) ==
    IF p = "csv" THEN CsvRowNumber(processed, idx) ELSE GdbRowNumber(processed, idx)

\* The arguments of two uploads' processors; a CSV stream has no layer.
StreamArgs ==
    {[batch_id |-> "b1", source_name |-> "Dane", layer_name |-> "V11_Parcels"],
     [batch_id |-> "b2", source_name |-> "Rock", layer_name |-> "Parcels"]}

IdleArgs == [batch_id |-> "b1", source_name |-> "Dane", layer_name |-> "V11_Parcels"]

\* The queue both processors publish to.
DedupQueue == "deduplication"

SourceFile_NameOnly(p, a) == a.source_name

\* source_file of the message.
SourceFile(p, a) ==
    IF p = "csv" THEN a.source_name ELSE a.source_name \o "/" \o a.layer_name

\* The message dict a processor builds for a validated row; raw_data stands
\* for record.model_dump(exclude_none=True).
Envelope(p, a, stype, rown) ==
    [batch_id |-> a.batch_id,
     source_type |-> IF p = "csv" THEN stype ELSE "PARCEL",
     source_file |-> SourceFile(p, a),
     source_row_number |-> rown,
     raw_data |-> "record"]

AfterRow_UpdatePerRow(iterated, len) == "update"

\* Where the row loop goes after a row: on to the next row, or out of the
\* loop to the chunk's progress update.
AfterRow(iterated, len) == IF iterated = len THEN "update" ELSE "rows"

FailPrefix(p) == IF p = "csv" THEN "CSV processing error" ELSE "GDB processing error"
FailMessage(p, e) == [prefix |-> FailPrefix(p), error |-> e]

PubIdle ==
    [pc |-> "idle", max_retries |-> 0, retry_delay |-> 0, serializable |-> TRUE,
     script |-> <<>>, attempt |-> 0, sleeps |-> <<>>, log |-> <<>>,
     publish_calls |-> 0, modes |-> <<>>, result |-> "none"]

\* No column validation under way.
VcIdle ==
    [pc |-> "idle", columns |-> {}, source_type |-> "RETR", missing |-> {},
     row |-> "none"]

\* No upload in flight.
UpIdle == <<>>

\* Scratch storage is not looked at.
FsIdle == <<>>

\* Module load: `_rabbitmq_connection = None`, `_rabbitmq_channel = None`.
MqIdle ==
    [pc |-> "idle", conn |-> 0, conn_closed |-> FALSE, chan |-> 0,
     chan_closed |-> FALSE, declared |-> FALSE, created |-> 0, last |-> <<>>]

\* No store exercise, no CRS transform and no encoding detection under way.
StIdle == <<>>

CrsIdle == <<>>

EncIdle == <<>>

\* No task is using the database pool.
DbIdle == <<>>

LaterIdle == st = StIdle /\ crs = CrsIdle /\ enc = EncIdle /\ db = DbIdle

OthersIdle ==
    vc = VcIdle /\ up = UpIdle /\ fs = FsIdle /\ mq = MqIdle /\ LaterIdle

Init ==
    /\ path \in {"csv", "gdb"}
    /\ args \in StreamArgs
    /\ source_type \in (IF path = "csv" THEN SourceTypes ELSE {"PARCEL"})
    /\ columns \in (IF path = "csv"
                    THEN {{"STATEID"} \cup s : s \in SUBSET HeaderNames}
                    ELSE {{"STATEID"}})
    \* the upload endpoint rejects a CSV without data rows; a layer may be empty
    /\ total_rows \in (IF path = "csv" THEN 1..MaxRows ELSE 0..MaxRows)
    /\ chunk_size \in 1..MaxChunk
    /\ pc = "start"
    /\ chunk_start = 0
    /\ chunk_len = 0
    /\ pos = 0
    /\ chunk_failed = 0
    /\ total_processed = 0
    /\ total_failed = 0
    /\ outcomes = <<>>
    /\ published = <<>>
    /\ tracker = <<>>
    /\ batch = NewBatch
    /\ cause = NoExc
    /\ exc = NoExc
    /\ task = "running"
    /\ validations = 0
    /\ pub = PubIdle
    /\ OthersIdle

\* process_csv_async up to the chunk loop: detect the encoding, read the
\* sample, validate its columns.
CsvStart ==
    /\ pc = "start" /\ path = "csv"
    /\ \E io \in {"ok", "error"} :
        /\ IF io = "error"
           THEN cause' = IoError /\ pc' = "failing"
           ELSE LET missing == MissingColumns(columns, source_type) IN
                IF missing /= {}
                THEN cause' = SchemaError(missing) /\ pc' = "failing"
                ELSE cause' = cause /\ pc' = "next_chunk"
        /\ validations' = validations + (IF io = "ok" THEN 1 ELSE 0)
    /\ UNCHANGED <<path, args, source_type, columns, total_rows, chunk_size,
                   chunk_start, chunk_len, pos, chunk_failed, total_processed,
                   total_failed, outcomes, published, tracker, batch, exc,
                   task, pub, otherVars>>

\* process_gdb_async up to the chunk loop: read the layer, normalise the CRS.
GdbStart ==
    /\ pc = "start" /\ path = "gdb"
    /\ \E io \in {"ok", "error"} :
        IF io = "error"
        THEN cause' = IoError /\ pc' = "failing"
        ELSE cause' = cause /\ pc' = "next_chunk"
    /\ UNCHANGED <<path, args, source_type, columns, total_rows, chunk_size,
                   chunk_start, chunk_len, pos, chunk_failed, total_processed,
                   total_failed, outcomes, published, tracker, batch, exc,
                   task, pub, validations, otherVars>>

\* The head of the chunk loop: pull the next chunk or leave the loop.  The
\* CSV reader can fail while reading; slicing the loaded layer cannot.
NextChunk ==
    /\ pc = "next_chunk"
    /\ \E io \in (IF path = "csv" THEN {"ok", "error"} ELSE {"ok"}) :
        IF io = "error"
        THEN /\ cause' = IoError /\ pc' = "failing"
             /\ UNCHANGED <<chunk_start, chunk_len, pos, chunk_failed>>
        ELSE LET start == chunk_start + chunk_len IN
             IF start >= total_rows
             THEN /\ pc' = "complete"
                  /\ UNCHANGED <<cause, chunk_start, chunk_len, pos, chunk_failed>>
             ELSE /\ chunk_start' = start
                  /\ chunk_len' = Min(chunk_size, total_rows - start)
                  /\ pos' = 0
                  /\ chunk_failed' = 0
                  /\ pc' = "rows"
                  /\ cause' = cause
    /\ UNCHANGED <<path, args, source_type, columns, total_rows, chunk_size,
                   total_processed, total_failed, outcomes, published,
                   tracker, batch, exc, task, pub, validations, otherVars>>

\* One iteration of the row loop, with its try/except.
ProcessRow ==
    /\ pc = "rows" /\ pos < chunk_len
    /\ \E o \in RowOutcomes(path) :
        LET idx == chunk_start + pos IN
        /\ outcomes' = Append(outcomes, o)
        /\ published' =
             IF PublishCalled(o)
             THEN Append(published,
                         [row |-> Len(outcomes) + 1,
                          queue |-> DedupQueue,
                          message |-> Envelope(path, args, source_type,
                                               RowNumber(path, total_processed, idx)),
                          outcome |-> o])
             ELSE published
        /\ chunk_failed' = chunk_failed + (IF RowFailed(o) THEN 1 ELSE 0)
    /\ pos' = pos + 1
    /\ pc' = AfterRow(pos + 1, chunk_len)
    /\ UNCHANGED <<path, args, source_type, columns, total_rows, chunk_size,
                   chunk_start, chunk_len, total_processed, total_failed,
                   tracker, batch, cause, exc, task, pub, validations, otherVars>>

\* The progress update after a chunk, and the running totals.
UpdateProgress ==
    /\ pc = "update"
    /\ \E so \in StoreOutcomes :
        LET chunk_processed == chunk_len
            chunk_successful == ChunkSuccessful(chunk_processed, chunk_failed)
        IN
        /\ tracker' = Append(tracker,
                TrackerCall("update", so, chunk_processed, chunk_successful,
                            chunk_failed, <<>>))
        /\ batch' = IF Applied(so)
                    THEN UpdateBatchProgress(batch, chunk_processed,
                            <<chunk_successful>>, <<>>, <<chunk_failed>>)
                    ELSE batch
        /\ IF Raised(so)
           THEN /\ cause' = StoreError /\ pc' = "failing"
                /\ UNCHANGED <<total_processed, total_failed>>
           ELSE /\ total_processed' = total_processed + chunk_processed
                /\ total_failed' = total_failed + chunk_failed
                /\ pc' = "next_chunk"
                /\ cause' = cause
    /\ UNCHANGED <<path, args, source_type, columns, total_rows, chunk_size,
                   chunk_start, chunk_len, pos, chunk_failed, outcomes,
                   published, exc, task, pub, validations, otherVars>>

\* complete_batch after the loop.
CompleteBatch ==
    /\ pc = "complete"
    /\ \E so \in StoreOutcomes :
        /\ tracker' = Append(tracker,
                TrackerCall("complete", so, total_processed, 0, 0, <<>>))
        /\ batch' = IF Applied(so) THEN CompleteBatchWrite(batch, total_processed)
                    ELSE batch
        /\ IF Raised(so)
           THEN cause' = StoreError /\ pc' = "failing"
           ELSE cause' = cause /\ pc' = "finished"
    /\ UNCHANGED <<path, args, source_type, columns, total_rows, chunk_size,
                   chunk_start, chunk_len, pos, chunk_failed, total_processed,
                   total_failed, outcomes, published, exc, task, pub, validations, otherVars>>

\* The outer except: fail_batch, then re-raise.
FailBatch ==
    /\ pc = "failing"
    /\ \E so \in StoreOutcomes :
        LET msg == FailMessage(path, cause) IN
        /\ tracker' = Append(tracker, TrackerCall("fail", so, 0, 0, 0, <<msg>>))
        /\ batch' = IF Applied(so) THEN FailBatchWrite(batch, msg) ELSE batch
        /\ exc' = IF Raised(so) THEN StoreError ELSE cause
    /\ pc' = "raised"
    /\ UNCHANGED <<path, args, source_type, columns, total_rows, chunk_size,
                   chunk_start, chunk_len, pos, chunk_failed, total_processed,
                   total_failed, outcomes, published, cause, task, pub, validations, otherVars>>

\* The background task ends: process_csv_async runs under
\* safe_background_task, process_gdb_async is scheduled undecorated.
TaskBoundary ==
    /\ task = "running"
    /\ pc \in {"finished", "raised"}
    /\ task' = IF pc = "finished" THEN "returned"
               ELSE IF path = "csv" THEN "suppressed" ELSE "escaped"
    /\ UNCHANGED <<path, args, source_type, columns, total_rows, chunk_size, pc,
                   chunk_start, chunk_len, pos, chunk_failed, total_processed,
                   total_failed, outcomes, published, tracker, batch, cause,
                   exc, pub, validations, otherVars>>

Next ==
    \/ CsvStart
    \/ GdbStart
    \/ NextChunk
    \/ ProcessRow
    \/ UpdateProgress
    \/ CompleteBatch
    \/ FailBatch
    \/ TaskBoundary

Spec == Init /\ [][Next]_vars

\* No stream is running: the values the stream's variables keep while another
\* part of the service is exercised.
StreamIdle ==
    /\ path = "csv"
    /\ args = IdleArgs
    /\ source_type = "RETR"
    /\ columns = {"STATEID"}
    /\ total_rows = 1
    /\ chunk_size = 1
    /\ pc = "idle"
    /\ chunk_start = 0
    /\ chunk_len = 0
    /\ pos = 0
    /\ chunk_failed = 0
    /\ total_processed = 0
    /\ total_failed = 0
    /\ outcomes = <<>>
    /\ published = <<>>
    /\ tracker = <<>>
    /\ batch = NewBatch
    /\ cause = NoExc
    /\ exc = NoExc
    /\ task = "idle"
    /\ validations = 0

\* --------------------------------------------------- validator, on its own
\* A call of validate_csv_columns about to run, for every sample header over
\* ColumnNames and every source type.
VcCalls ==
    {[pc |-> "call", columns |-> cols, source_type |-> t, missing |-> {},
      row |-> "none"] :
        cols \in SUBSET ColumnNames, t \in SourceTypes}

InitValidate ==
    /\ StreamIdle
    /\ pub = PubIdle
    /\ vc \in VcCalls
    /\ up = UpIdle /\ fs = FsIdle /\ mq = MqIdle /\ LaterIdle

\* validate_csv_columns(df, source_type): raises ValueError naming `missing`
\* when it is non-empty, returns None otherwise.
ValidateCsvColumns ==
    /\ vc.pc = "call"
    /\ LET missing == MissingColumns(vc.columns, vc.source_type) IN
       vc' = [vc EXCEPT !.missing = missing,
                        !.pc = IF missing /= {} THEN "raised" ELSE "returned"]
    /\ UNCHANGED <<streamVars, pub, up, fs, mq, st, crs, enc, db>>

\* str.strip() on the names of ColumnNames.
Strip(c) == IF c = " geometry_type" THEN "geometry_type" ELSE c

\* The keys of row_dict: the chunk's column names after
\* `chunk.columns.str.strip()`.
RowKeys(cols) == {Strip(c) : c \in cols}

\* V11ParcelRecord(**row_dict) for a row whose cells are all non-empty: the
\* model takes a keyword by its field's exact name, ignores the others, and
\* refuses the row when a required field got none.
RecordAccepts(keys) == RequiredFields \subseteq keys

\* The first data row of a PARCEL file that passed the validator, every cell
\* non-empty, goes through the row loop's record validation.
ValidateRecord ==
    /\ vc.pc = "returned"
    /\ vc.source_type = "PARCEL"
    /\ vc.row = "none"
    /\ vc' = [vc EXCEPT !.row = IF RecordAccepts(RowKeys(vc.columns))
                               THEN "accepted" ELSE "rejected"]
    /\ UNCHANGED <<streamVars, pub, up, fs, mq, st, crs, enc, db>>

NextValidate == ValidateCsvColumns \/ ValidateRecord

SpecValidate == InitValidate /\ [][NextValidate]_vars

\* ---------------------------------------------------------------- publisher
\* What the transport does on the n-th loop iteration of publish_message.
DeliveryOutcomes == {"ok", "conn_error", "publish_error"}

\* One iteration of the try block: get_rabbitmq_connection(), then
\* json.dumps(message) while the arguments are evaluated, then basic_publish.
AttemptResult(delivery, serializable) ==
    IF delivery = "conn_error" THEN "conn_error"
    ELSE IF ~serializable THEN "type_error"
    ELSE delivery

\* Whether basic_publish was invoked in an iteration with this result.
BasicPublishCalled(what) == what \in {"ok", "publish_error"}

\* `except Exception` of the retry loop.
CaughtByRetry(what) == what \in {"conn_error", "publish_error", "type_error"}

ShouldSleep_Always(attempt, max_retries) == attempt < max_retries

\* `if attempt < max_retries - 1`
ShouldSleep(attempt, max_retries) == attempt < max_retries - 1

BackoffDelay_Constant(retry_delay, attempt) == retry_delay

\* `retry_delay * (attempt + 1)`
BackoffDelay(retry_delay, attempt) == retry_delay * (attempt + 1)

\* AMQP delivery mode of a persistent message.
Persistent == 2

PublishProperties_TransientOnRetry(attempt) ==
    [delivery_mode |-> IF attempt = 0 THEN Persistent ELSE 1,
     content_type |-> "application/json"]

\* `pika.BasicProperties(delivery_mode=2, content_type='application/json')`,
\* built anew in every loop iteration.
PublishProperties(attempt) ==
    [delivery_mode |-> Persistent, content_type |-> "application/json"]

\* A publish_message call about to enter its loop.
PubCalls ==
    {[pc |-> "loop", max_retries |-> m, retry_delay |-> d, serializable |-> s,
      script |-> sc, attempt |-> 0, sleeps |-> <<>>, log |-> <<>>,
      publish_calls |-> 0, modes |-> <<>>, result |-> "none"] :
        m \in 0..MaxAttempts, d \in 1..MaxDelay, s \in BOOLEAN,
        sc \in [1..MaxAttempts -> DeliveryOutcomes]}

InitPub ==
    /\ StreamIdle
    /\ pub \in PubCalls
    /\ OthersIdle

\* One iteration of `for attempt in range(max_retries)`.
PublishAttempt ==
    /\ pub.pc = "loop"
    /\ pub.attempt < pub.max_retries
    /\ LET a == pub.attempt
           what == AttemptResult(pub.script[a + 1], pub.serializable)
           calls == pub.publish_calls + (IF BasicPublishCalled(what) THEN 1 ELSE 0)
           log == Append(pub.log, what)
           modes == IF BasicPublishCalled(what)
                    THEN Append(pub.modes, PublishProperties(a).delivery_mode)
                    ELSE pub.modes
       IN
       IF what = "ok"
       THEN pub' = [pub EXCEPT !.pc = "returned", !.result = "true",
                               !.log = log, !.publish_calls = calls, !.modes = modes]
       ELSE IF ~CaughtByRetry(what)
       THEN pub' = [pub EXCEPT !.pc = "raised", !.result = "raised",
                               !.log = log, !.publish_calls = calls, !.modes = modes]
       ELSE IF ShouldSleep(a, pub.max_retries)
       THEN pub' = [pub EXCEPT !.attempt = a + 1, !.log = log,
                               !.publish_calls = calls, !.modes = modes,
                               !.sleeps = Append(@, BackoffDelay(pub.retry_delay, a))]
       ELSE pub' = [pub EXCEPT !.pc = "returned", !.result = "false",
                               !.log = log, !.publish_calls = calls, !.modes = modes]
    /\ UNCHANGED <<streamVars, otherVars>>

\* The loop ran out without returning: the trailing `return False`.
PublishExhausted ==
    /\ pub.pc = "loop"
    /\ pub.attempt >= pub.max_retries
    /\ pub' = [pub EXCEPT !.pc = "returned", !.result = "false"]
    /\ UNCHANGED <<streamVars, otherVars>>

NextPub ==
    \/ PublishAttempt
    \/ PublishExhausted

SpecPub == InitPub /\ [][NextPub]_vars

\* ================================================================== claims
RECURSIVE CountFailing(_)
\* Rows of a history that did not end with an accepted message.
CountFailing(outs) ==
    IF outs = <<>> THEN 0
    ELSE (IF Head(outs) = "published" THEN 0 ELSE 1) + CountFailing(Tail(outs))

\* The outcomes of the rows of the current chunk iterated so far.
ChunkOutcomes == SubSeq(outcomes, chunk_start + 1, chunk_start + pos)

UpdateCalls == {i \in DOMAIN tracker : tracker[i].op = "update"}
CompleteCalls == {i \in DOMAIN tracker : tracker[i].op = "complete"}
FailCalls == {i \in DOMAIN tracker : tracker[i].op = "fail"}

\* C1: after every progress update and after completion the batch's
\* processed_records equals new_records + failed_records; every update
\* carries processed = new + failed with 0 <= failed <= chunk length, and the
\* chunk's failure counter is the number of failing rows of the chunk, so
\* each row is counted exactly once.
C1_RowAccounting ==
    /\ batch.processed_records = batch.new_records + batch.failed_records
    /\ \A i \in UpdateCalls :
        /\ tracker[i].processed = tracker[i].new + tracker[i].failed
        /\ 0 <= tracker[i].failed
        /\ tracker[i].failed <= tracker[i].processed
    /\ pc \in {"rows", "update"} =>
        /\ 0 <= chunk_failed
        /\ chunk_failed <= chunk_len
        /\ chunk_failed = CountFailing(ChunkOutcomes)

C1_Witness ==
    /\ batch.status = "completed"
    /\ Cardinality(UpdateCalls) >= 2
    /\ batch.failed_records >= 1
    /\ batch.new_records >= 1

\* C2: on the CSV path the message of the k-th data row of the file carries
\* source_row_number = k, across all chunks.
C2_CsvNumbering ==
    path = "csv" =>
        \A i \in DOMAIN published : published[i].message.source_row_number = published[i].row

\* C3: on the geodatabase path the message of the k-th feature carries
\* source_row_number = k, failed and skipped features consuming their number.
C3_GdbNumbering ==
    path = "gdb" =>
        /\ \A i \in DOMAIN published :
            published[i].message.source_row_number = published[i].row
        /\ \A i, j \in DOMAIN published :
            i < j => published[i].message.source_row_number < published[j].message.source_row_number

C3_Witness ==
    /\ path = "gdb"
    /\ chunk_size = 2
    /\ outcomes = <<"published", "empty_geometry", "published">>
    /\ Len(published) = 2
    /\ published[2].message.source_row_number = 3

LacksGeometryColumn ==
    \/ ~(\E c \in columns : Upper(c) = "GEOMETRY_WKT")
    \/ ~(\E c \in columns : Upper(c) = "GEOMETRY_TYPE")

\* C4: a PARCEL CSV stream whose header lacks geometry_wkt or geometry_type
\* never publishes, never reports progress or completion, never enters the
\* chunk loop; once its sample was read it is failed with the validator's
\* message, which the store records whenever the fail_batch write goes through.
C4_SchemaGate ==
    (path = "csv" /\ source_type = "PARCEL" /\ LacksGeometryColumn) =>
        /\ published = <<>>
        /\ UpdateCalls = {} /\ CompleteCalls = {}
        /\ pc \in {"start", "failing", "raised"}
        /\ pc /= "start" => cause.kind \in {"schema", "io"}
        /\ (pc = "raised" /\ cause.kind = "schema") =>
            /\ Len(tracker) = 1
            /\ tracker[1].op = "fail"
            /\ tracker[1].msg = <<FailMessage("csv", cause)>>
            /\ cause.missing /= {}
            /\ Applied(tracker[1].outcome) =>
                /\ batch.status = "failed"
                /\ batch.error = <<FailMessage("csv", cause)>>

C4_Witness ==
    /\ path = "csv" /\ source_type = "PARCEL"
    /\ columns = {"STATEID", "geometry_wkt"}
    /\ pc = "raised"
    /\ cause = SchemaError({"GEOMETRY_TYPE"})
    /\ batch.status = "failed"
    /\ published = <<>>

\* C5: row-level failures are never fatal.  fail_batch is called only after a
\* stream-fatal error; a stream without one attempts every row and ends
\* completed, with failed_records the number of failing rows, one
\* complete_batch call and no fail_batch call.
C5_FaultIsolation ==
    /\ cause.kind = "none" =>
        /\ FailCalls = {}
        /\ pc \notin {"failing", "raised"}
    /\ pc = "finished" =>
        /\ cause.kind = "none"
        /\ Len(outcomes) = total_rows
        /\ batch.status = "completed"
        /\ batch.processed_records = total_rows
        /\ batch.failed_records = CountFailing(outcomes)
        /\ Cardinality(CompleteCalls) = 1
        /\ FailCalls = {}

C5_Witness ==
    /\ pc = "finished"
    /\ total_rows = MaxRows
    /\ chunk_size = 2
    /\ \A i \in DOMAIN outcomes : outcomes[i] /= "published"
    /\ \E i \in DOMAIN outcomes : outcomes[i] = "publish_false"
    /\ \E i \in DOMAIN outcomes : outcomes[i] = "publish_raise"
    /\ \E i \in DOMAIN outcomes : outcomes[i] = "invalid"
    /\ batch.status = "completed"
    /\ batch.failed_records = total_rows

\* Whether the n-th iteration of a publish_message call fails.
AttemptFails(n) == AttemptResult(pub.script[n], pub.serializable) /= "ok"

\* C6: with a transport that fails twice and then succeeds, and
\* max_retries = 3, publish_message returns true after exactly 3 attempts and
\* exactly two sleeps, of retry_delay * 1 and retry_delay * 2.
C6_RetryBackoff ==
    (/\ pub.pc /= "loop" /\ pub.pc /= "idle"
     /\ pub.max_retries = 3
     /\ AttemptFails(1) /\ AttemptFails(2) /\ ~AttemptFails(3)) =>
        /\ pub.pc = "returned"
        /\ pub.result = "true"
        /\ Len(pub.log) = 3
        /\ pub.sleeps = <<pub.retry_delay * 1, pub.retry_delay * 2>>

C6_Witness ==
    /\ pub.pc = "returned"
    /\ pub.max_retries = 3
    /\ pub.retry_delay = 2
    /\ pub.log = <<"publish_error", "conn_error", "ok">>
    /\ pub.result = "true"
    /\ pub.sleeps = <<2, 4>>

\* C7: publish_message never makes more than max_retries attempts and never
\* raises; when every attempt fails (max_retries >= 1) it makes exactly
\* max_retries attempts, sleeps max_retries - 1 times and returns false; it
\* returns false only after max_retries failed attempts and returns true at
\* the first attempt that succeeds.
C7_BoundedRetry ==
    /\ Len(pub.log) <= pub.max_retries
    /\ Len(pub.sleeps) <= Len(pub.log)
    /\ pub.pc /= "raised"
    /\ pub.pc = "loop" => pub.attempt = Len(pub.log) /\ Len(pub.sleeps) = Len(pub.log)
    /\ (pub.pc = "returned" /\ pub.max_retries >= 1) =>
        /\ (\A n \in 1..pub.max_retries : AttemptFails(n)) =>
            /\ pub.result = "false"
            /\ Len(pub.log) = pub.max_retries
            /\ Len(pub.sleeps) = pub.max_retries - 1
        /\ pub.result = "false" =>
            /\ Len(pub.log) = pub.max_retries
            /\ \A n \in 1..pub.max_retries : pub.log[n] /= "ok"
            /\ Len(pub.sleeps) = pub.max_retries - 1
        /\ pub.result = "true" =>
            /\ pub.log[Len(pub.log)] = "ok"
            /\ \A n \in 1..(Len(pub.log) - 1) : pub.log[n] /= "ok"
            /\ Len(pub.sleeps) = Len(pub.log) - 1

C7_Witness ==
    /\ pub.pc = "returned"
    /\ pub.max_retries = MaxAttempts
    /\ pub.serializable
    /\ pub.result = "false"
    /\ Len(pub.log) = MaxAttempts
    /\ Len(pub.sleeps) = MaxAttempts - 1

\* C8: a non-serializable message makes publish_message raise to its caller
\* at the attempt that hits it, instead of retrying and returning false.
C8_NonSerializableRaises ==
    (\E n \in DOMAIN pub.log : pub.log[n] = "type_error") =>
        /\ pub.pc = "raised"
        /\ pub.log[Len(pub.log)] = "type_error"

\* C9: once the batch's status has left processing it never changes again.
C9_StatusFinal ==
    [][batch.status /= "processing" => batch'.status = batch.status]_vars

\* C10: once the processor has returned or raised, the batch's status is
\* completed or failed.
C10_TerminalStatus ==
    pc \in {"finished", "raised"} => batch.status \in {"completed", "failed"}

\* C11: after a stream-fatal error the processor calls fail_batch exactly
\* once, as its last store call, with a message carrying the triggering error,
\* and the exception that leaves the processor is the triggering error.
C11_StreamFatal ==
    /\ pc \in {"failing", "raised"} => cause.kind /= "none"
    /\ pc = "raised" =>
        /\ Cardinality(FailCalls) = 1
        /\ tracker[Len(tracker)].op = "fail"
        /\ tracker[Len(tracker)].msg = <<FailMessage(path, cause)>>
        /\ exc = cause

\* C12: on both paths an exception that leaves the stream processor is caught
\* at the background-task boundary and goes no further.
C12_BoundaryCatches ==
    (pc = "raised" /\ task /= "running") => task = "suppressed"

CeilDiv(n, c) == (n + c - 1) \div c

RECURSIVE SumProcessed(_)
\* Sum of the processed counts of the progress updates of a call history.
SumProcessed(calls) ==
    IF calls = <<>> THEN 0
    ELSE (IF Head(calls).op = "update" THEN Head(calls).processed ELSE 0)
         + SumProcessed(Tail(calls))

\* C16: progress is reported once per chunk.  Updates carry at most
\* chunk_size rows; a stream of N rows that runs to its end made exactly
\* ceil(N / chunk_size) updates, the k-th with the k-th chunk's processed,
\* succeeded and failed counts, processed = chunk_size for all but the last,
\* the processed counts summing to N.
C16_ProgressPerChunk ==
    /\ \A i \in UpdateCalls :
        /\ i <= CeilDiv(total_rows, chunk_size)
        /\ tracker[i].processed >= 1
        /\ tracker[i].processed <= chunk_size
    /\ pc = "finished" =>
        /\ SumProcessed(tracker) = total_rows
        /\ Cardinality(UpdateCalls) = CeilDiv(total_rows, chunk_size)
        /\ UpdateCalls = 1..CeilDiv(total_rows, chunk_size)
        /\ \A i \in UpdateCalls :
            LET first == (i - 1) * chunk_size + 1
                rows == SubSeq(outcomes, first, first + tracker[i].processed - 1)
            IN
            /\ i < CeilDiv(total_rows, chunk_size) => tracker[i].processed = chunk_size
            /\ tracker[i].failed = CountFailing(rows)
            /\ tracker[i].new = tracker[i].processed - CountFailing(rows)

C16_Witness ==
    /\ path = "csv"
    /\ pc = "finished"
    /\ total_rows = 3 /\ chunk_size = 2
    /\ outcomes = <<"published", "invalid", "published">>
    /\ Len(tracker) = 3
    /\ tracker[1].processed = 2 /\ tracker[1].failed = 1
    /\ tracker[2].processed = 1 /\ tracker[2].failed = 0
    /\ batch.processed_records = 3
    /\ batch.failed_records = 1
    /\ batch.status = "completed"

\* C17: every stream, CSV or geodatabase, runs the schema validator exactly
\* once before its first record is published: a stream that has entered its
\* chunk loop or published a message has one validation behind it, and a
\* stream stopped by the validator has published nothing.
C17_ValidatedBeforePublish ==
    /\ validations <= 1
    /\ pc \in {"next_chunk", "rows", "update", "complete", "finished"} =>
        validations = 1
    /\ published /= <<>> => validations = 1
    /\ cause.kind = "schema" => published = <<>> /\ outcomes = <<>>

\* str.lower() on the names of ColumnNames.
Lower(c) ==
    CASE c = "GEOMETRY_WKT" -> "geometry_wkt"
      [] c = "Geometry_Wkt" -> "geometry_wkt"
      [] c = "Geometry_Type" -> "geometry_type"
      [] c = "STATEID" -> "stateid"
      [] OTHER -> c

\* Field f has no column under case-insensitive comparison.
Absent(f, cols) == \A c \in cols : Lower(c) /= f

\* C18: validate_csv_columns raises iff the type is PARCEL and a geometry field
\* has no column under case-insensitive comparison; the failure names exactly
\* the absent required fields; for RETR and DFI it never raises.
C18_ValidatorResult ==
    vc.pc \in {"returned", "raised"} =>
        /\ vc.pc = "raised" <=>
            /\ vc.source_type = "PARCEL"
            /\ \E f \in RequiredFields : Absent(f, vc.columns)
        /\ vc.pc = "raised" =>
            vc.missing = {Upper(f) : f \in {g \in RequiredFields : Absent(g, vc.columns)}}
        /\ vc.source_type \in {"RETR", "DFI"} => vc.pc = "returned"

\* A PARCEL sample with geometry_wkt in mixed case and geometry_type only in a
\* blank-padded spelling is refused for GEOMETRY_TYPE alone.
C18_Witness ==
    /\ vc.pc = "raised"
    /\ vc.source_type = "PARCEL"
    /\ vc.columns = {"Geometry_Wkt", " geometry_type", "STATEID"}
    /\ vc.missing = {"GEOMETRY_TYPE"}

\* C19: every basic_publish call made by publish_message, on the first attempt
\* and on each retry, carries delivery_mode = 2; no call is made with a
\* non-persistent message.
C19_PersistentDelivery ==
    /\ Len(pub.modes) = pub.publish_calls
    /\ \A i \in 1..Len(pub.modes) : pub.modes[i] = 2

\* Three deliveries were attempted, the first two refused by the broker.
C19_Witness ==
    /\ pub.result = "true"
    /\ pub.log = <<"publish_error", "publish_error", "ok">>
    /\ pub.modes = <<2, 2, 2>>

\* ------------------------------------------------- publisher connection cache
\* The module globals of shared.rabbitmq. Connections are numbered in order of
\* creation; mq.conn is the cached connection (0 for None), mq.chan the
\* connection on which the cached channel was opened (0 for None).
\* What a get_rabbitmq_connection call did, as its caller sees it.
CallResult(result, m, fresh) ==
    <<[result |-> result, chan |-> m.chan, chan_closed |-> m.chan_closed,
       conn |-> m.conn, declared |-> m.declared, fresh |-> fresh]>>

NeedsConnection_Always(m) == TRUE

\* `_rabbitmq_connection is None or _rabbitmq_connection.is_closed`
NeedsConnection(m) == m.conn = 0 \/ m.conn_closed

InitMq ==
    /\ StreamIdle
    /\ pub = PubIdle
    /\ vc = VcIdle /\ up = UpIdle /\ fs = FsIdle /\ LaterIdle
    /\ mq = [MqIdle EXCEPT !.pc = "ready"]

\* get_rabbitmq_connection(). Creating the state can fail at each of its three
\* calls; the assignments made before the failing call stay in the globals.
GetRabbitmqConnection ==
    /\ mq.pc = "ready"
    /\ IF NeedsConnection(mq)
       THEN /\ mq.created < MaxConns
            /\ \E r \in {"ok", "connect_error", "channel_error", "declare_error"},
                  lost \in BOOLEAN :
                LET id == mq.created + 1
                    opened == [mq EXCEPT !.conn = id, !.conn_closed = FALSE,
                                         !.created = id]
                    withchan == [opened EXCEPT !.chan = id, !.chan_closed = FALSE,
                                               !.declared = FALSE]
                    m == CASE r = "connect_error" -> mq
                           [] r = "channel_error" ->
                                [opened EXCEPT !.conn_closed = lost]
                           [] r = "declare_error" ->
                                [withchan EXCEPT !.chan_closed = lost]
                           [] OTHER -> [withchan EXCEPT !.declared = TRUE]
                IN
                /\ r \in {"connect_error", "ok"} => ~lost
                /\ mq' = [m EXCEPT !.last =
                            CallResult(IF r = "ok" THEN "returned" ELSE "raised",
                                       m, r /= "connect_error")]
       ELSE mq' = [mq EXCEPT !.last = CallResult("returned", mq, FALSE)]
    /\ UNCHANGED <<streamVars, pub, vc, up, fs, st, crs, enc, db>>

\* The broker or a protocol error closes the cached channel; the connection
\* stays open.
ChannelCloses ==
    /\ mq.pc = "ready"
    /\ mq.chan /= 0 /\ ~mq.chan_closed
    /\ mq' = [mq EXCEPT !.chan_closed = TRUE]
    /\ UNCHANGED <<streamVars, pub, vc, up, fs, st, crs, enc, db>>

\* The cached connection is lost, and with it every channel opened on it.
ConnectionCloses ==
    /\ mq.pc = "ready"
    /\ mq.conn /= 0 /\ ~mq.conn_closed
    /\ mq' = [mq EXCEPT !.conn_closed = TRUE,
                        !.chan_closed = IF mq.chan = mq.conn THEN TRUE ELSE @]
    /\ UNCHANGED <<streamVars, pub, vc, up, fs, st, crs, enc, db>>

\* close_rabbitmq_connection(): both globals end as None whatever close() does.
CloseRabbitmqConnection ==
    /\ mq.pc = "ready"
    /\ mq.conn /= 0 \/ mq.chan /= 0
    /\ mq' = [mq EXCEPT !.conn = 0, !.conn_closed = FALSE, !.chan = 0,
                        !.chan_closed = FALSE, !.declared = FALSE]
    /\ UNCHANGED <<streamVars, pub, vc, up, fs, st, crs, enc, db>>

NextMq ==
    \/ GetRabbitmqConnection
    \/ ChannelCloses
    \/ ConnectionCloses
    \/ CloseRabbitmqConnection

SpecMq == InitMq /\ [][NextMq]_vars

\* C20: whenever the cached channel reports itself closed, the next
\* get_rabbitmq_connection call sets up a new connection and channel instead of
\* returning the closed one: no call returns a channel that is closed.
C20_TransparentReconnect ==
    \A i \in 1..Len(mq.last) :
        mq.last[i].result = "returned" => ~mq.last[i].chan_closed

\* ------------------------------------------------------ geodatabase uploads
Uploads == 1..NumUploads

\* safe_source_name values and file names the uploads may carry.
Sources == {"Dane", "Rock"}
Files == {"a.gdb.zip", "b.gdb.zip"}

\* `temp_dir / f"{safe_source_name}_{file.filename}"`
ZipPath(s, f) == [kind |-> "zip", source |-> s, file |-> f]

\* `temp_dir / f"{safe_source_name}_extract"`
ExtractDir(s) == [kind |-> "extract", source |-> s, file |-> ""]

\* The .gdb directory extract_gdb finds under the extraction directory.
GdbDir(s) == [kind |-> "gdb", source |-> s, file |-> ""]

Paths ==
    {ZipPath(s, f) : s \in Sources, f \in Files}
        \cup {ExtractDir(s) : s \in Sources} \cup {GdbDir(s) : s \in Sources}

\* fs[p] is 0 when p does not exist, else the upload whose data p holds.
NoFiles == [p \in Paths |-> 0]

\* The path and everything below it.
Subtree(t) ==
    {q \in Paths : q = t \/ (t.kind = "extract" /\ q.kind = "gdb" /\ q.source = t.source)}

\* `gdb_path.parent if gdb_path.name.endswith('.gdb') else gdb_path`
CleanupPath(p) == IF p.kind = "gdb" THEN ExtractDir(p.source) ELSE p

\* shutil.rmtree either removes the tree or raises and leaves it.
RmOutcomes == {"ok", "fail"}

CleanupGdb_Unguarded(fsys, p, rm) ==
    LET t == CleanupPath(p) IN
    IF fsys[t] /= 0 /\ rm = "ok" /\ t.kind /= "zip"
    THEN [fs |-> [q \in Paths |-> IF q \in Subtree(t) THEN 0 ELSE fsys[q]],
          raised |-> FALSE, found |-> "removed"]
    ELSE [fs |-> fsys, raised |-> TRUE,
          found |-> IF fsys[t] = 0 THEN "absent" ELSE "failed"]

\* cleanup_gdb(gdb_path): rmtree of the cleanup path if it exists; whatever
\* is raised inside is logged and dropped. rmtree of a plain file raises.
CleanupGdb(fsys, p, rm) ==
    LET t == CleanupPath(p) IN
    IF fsys[t] = 0
    THEN [fs |-> fsys, raised |-> FALSE, found |-> "absent"]
    ELSE IF rm = "ok" /\ t.kind /= "zip"
    THEN [fs |-> [q \in Paths |-> IF q \in Subtree(t) THEN 0 ELSE fsys[q]],
          raised |-> FALSE, found |-> "removed"]
    ELSE [fs |-> fsys, raised |-> FALSE, found |-> "failed"]

\* `temp_file.unlink(missing_ok=True)`
Unlink(fsys, p) == [fsys EXCEPT ![p] = 0]

\* extract_gdb succeeded for upload u: the extraction directory and the .gdb
\* directory in it hold u's data.
Extracted(fsys, u, s) == [fsys EXCEPT ![ExtractDir(s)] = u, ![GdbDir(s)] = u]

\* Features in the layer of upload u's geodatabase: the uploads differ in
\* size, so their data can be told apart.
Features(u) == u

\* An upload request as it arrives. batch is the status of its import_batches
\* row ("none" while there is no row), total_records and processed_records are
\* that row's columns.
NewUploads ==
    {[pc |-> "begin", source |-> s, file |-> f, extracted |-> FALSE,
      batch |-> "none", total_records |-> <<>>, processed_records |-> 0,
      responded |-> FALSE, read_from |-> 0, cleaned |-> "none",
      why |-> "none"] :
        s \in Sources, f \in Files}

\* Results of the handler's checks that are answered with a 4xx rejection.
FormatErrors ==
    {"precheck", "too_large", "extract_error", "invalid_gdb", "inspect_error",
     "layer_missing"}

HandlerExit_LayerUnchecked(r) ==
    CASE r = "layer_missing" -> "creating"
      [] r \in FormatErrors -> "rejected"
      [] r = "count_missing" -> "error500"
      [] OTHER -> "creating"

\* Where the handler goes with the result of its checks: HTTPException for a
\* format error, the generic 500 for anything unexpected, on to create_batch
\* otherwise.
HandlerExit(r) ==
    CASE r \in FormatErrors -> "rejected"
      [] r = "count_missing" -> "error500"
      [] OTHER -> "creating"

AfterCreate_AlwaysAccepted(so) == "accepted"

\* create_batch raising skips add_task and the response; its return is
\* followed by both.
AfterCreate(so) == IF Raised(so) THEN "error500" ELSE "accepted"

InitUpload ==
    /\ StreamIdle
    /\ pub = PubIdle
    /\ vc = VcIdle /\ mq = MqIdle /\ LaterIdle
    \* names are interchangeable: the first upload is of Dane, and the first
    \* upload of a source takes the first file name
    /\ up \in {f \in [Uploads -> NewUploads] :
                  /\ f[1].source = "Dane"
                  /\ \A u \in Uploads :
                        f[u].file = "a.gdb.zip"
                            \/ \E v \in 1..(u - 1) : f[v].source = f[u].source}
    /\ fs = NoFiles

\* upload_parcel_gdb up to the first await inside save_upload_file: form,
\* extension and declared-size checks, then the destination is opened for
\* writing, which creates or truncates it.
UploadBegin(u) ==
    /\ up[u].pc = "begin"
    /\ \E r \in {"ok", "invalid"} :
        IF r = "invalid"
        THEN /\ up' = [up EXCEPT ![u].pc = HandlerExit("precheck"),
                                  ![u].why = "precheck"]
             /\ fs' = fs
        ELSE /\ up' = [up EXCEPT ![u].pc = "saving"]
             /\ fs' = [fs EXCEPT ![ZipPath(up[u].source, up[u].file)] = u]
    /\ UNCHANGED <<streamVars, pub, vc, mq, st, crs, enc, db>>

\* From the last write of save_upload_file to the await of create_batch: size
\* check, extract_gdb, validate_gdb_format, inspect_gdb, layer lookup and the
\* log line that formats the feature count. No await in between.
SaveAndInspect(u) ==
    /\ up[u].pc = "saving"
    /\ \E r \in {"too_large", "extract_error", "invalid_gdb", "inspect_error",
                 "layer_missing", "count_missing", "ok"},
          rm \in RmOutcomes :
        LET s == up[u].source
            saved == [fs EXCEPT ![ZipPath(s, up[u].file)] = u]
            \* extract_gdb creates the directory before it opens the archive
            made == [saved EXCEPT ![ExtractDir(s)] = IF @ = 0 THEN u ELSE @]
            full == Extracted(saved, u, s)
            undo(fsys) == CleanupGdb(Unlink(fsys, ZipPath(s, up[u].file)),
                                     ExtractDir(s), rm)
        IN
        CASE r = "too_large" ->
                /\ rm = "ok"
                /\ fs' = saved
                /\ up' = [up EXCEPT ![u].pc = HandlerExit(r), ![u].why = r]
          [] r = "extract_error" ->
                /\ fs' = undo(made).fs
                /\ up' = [up EXCEPT ![u].pc = IF undo(made).raised
                                               THEN "error500" ELSE HandlerExit(r),
                                     ![u].why = IF undo(made).raised
                                                THEN "cleanup" ELSE r,
                                     ![u].cleaned = undo(made).found]
          [] r \in {"invalid_gdb", "inspect_error", "layer_missing"} ->
                /\ fs' = undo(full).fs
                /\ up' = [up EXCEPT ![u].pc = IF undo(full).raised
                                               THEN "error500" ELSE HandlerExit(r),
                                     ![u].why = IF undo(full).raised
                                                THEN "cleanup" ELSE r,
                                     ![u].extracted = TRUE,
                                     ![u].cleaned = undo(full).found]
          [] r = "count_missing" ->
                /\ rm = "ok"
                /\ fs' = full
                /\ up' = [up EXCEPT ![u].pc = HandlerExit(r), ![u].why = r,
                                     ![u].extracted = TRUE]
          [] OTHER ->
                /\ rm = "ok"
                /\ fs' = full
                /\ up' = [up EXCEPT ![u].pc = HandlerExit(r),
                                     ![u].extracted = TRUE]
    /\ UNCHANGED <<streamVars, pub, vc, mq, st, crs, enc, db>>

\* create_batch returns or raises; on return the three background tasks are
\* queued and the response is sent, on a raise the generic handler answers 500.
CreateBatch(u) ==
    /\ up[u].pc = "creating"
    /\ \E so \in StoreOutcomes :
        up' = [up EXCEPT ![u].batch = IF Applied(so) THEN "processing" ELSE @,
                         \* total_records is the feature count inspect_gdb read
                         \* from the directory this upload has just extracted
                         ![u].total_records =
                            IF Applied(so) THEN <<Features(u)>> ELSE @,
                         ![u].pc = AfterCreate(so),
                         ![u].responded = ~Raised(so),
                         ![u].why = IF Raised(so) THEN "create_batch" ELSE @]
    /\ fs' = fs
    /\ UNCHANGED <<streamVars, pub, vc, mq, st, crs, enc, db>>

\* First background task: process_gdb_async reads the layer from the .gdb
\* directory and runs the stream. An exception leaving it ends the run of the
\* request's background tasks.
BgProcess(u) ==
    /\ up[u].pc = "accepted"
    /\ LET holder == fs[GdbDir(up[u].source)] IN
       \E r \in {"finished", "raised"}, marked \in BOOLEAN :
        /\ holder = 0 => r = "raised"
        /\ r = "finished" => marked
        \* a finished run has reported every feature of the layer it found; a
        \* failing run is taken to fail before its first progress update (the
        \* stream specification covers failures between chunks)
        /\ up' = [up EXCEPT ![u].read_from = holder,
                            ![u].processed_records =
                                IF r = "finished" THEN Features(holder) ELSE @,
                            ![u].pc = IF r = "finished" THEN "bg_unlink"
                                      ELSE "bg_aborted",
                            ![u].why = IF r = "finished" THEN @ ELSE "process",
                            ![u].batch = IF r = "finished" THEN "completed"
                                         ELSE IF marked THEN "failed" ELSE @]
    /\ fs' = fs
    /\ UNCHANGED <<streamVars, pub, vc, mq, st, crs, enc, db>>

\* Second background task: temp_file.unlink(missing_ok=True).
BgUnlink(u) ==
    /\ up[u].pc = "bg_unlink"
    /\ fs' = Unlink(fs, ZipPath(up[u].source, up[u].file))
    /\ up' = [up EXCEPT ![u].pc = "bg_cleanup"]
    /\ UNCHANGED <<streamVars, pub, vc, mq, st, crs, enc, db>>

\* Third background task: cleanup_gdb(extract_dir).
BgCleanup(u) ==
    /\ up[u].pc = "bg_cleanup"
    /\ \E rm \in RmOutcomes :
        LET done == CleanupGdb(fs, ExtractDir(up[u].source), rm) IN
        /\ fs' = done.fs
        /\ up' = [up EXCEPT ![u].pc = IF done.raised THEN "bg_aborted" ELSE "done",
                            ![u].why = IF done.raised THEN "cleanup" ELSE @,
                            ![u].cleaned = done.found]
    /\ UNCHANGED <<streamVars, pub, vc, mq, st, crs, enc, db>>

NextUpload ==
    \E u \in Uploads :
        \/ UploadBegin(u)
        \/ SaveAndInspect(u)
        \/ CreateBatch(u)
        \/ BgProcess(u)
        \/ BgUnlink(u)
        \/ BgCleanup(u)

SpecUpload == InitUpload /\ [][NextUpload]_vars

\* The upload's request and background work have both come to an end.
Concluded(u) == up[u].pc \in {"rejected", "error500", "bg_aborted", "done"}

\* No other upload names the same source, so nobody else touches u's paths.
Alone(u) == \A v \in Uploads \ {u} : up[v].source /= up[u].source

\* C13: once an upload whose archive was extracted has concluded, on any exit
\* path, its saved zip and its extraction directory are gone (short of rmtree
\* itself failing).
C13_ScratchRemoved ==
    \A u \in DOMAIN up :
        (Concluded(u) /\ up[u].extracted /\ Alone(u) /\ up[u].cleaned /= "failed") =>
            /\ fs[ZipPath(up[u].source, up[u].file)] = 0
            /\ fs[ExtractDir(up[u].source)] = 0
            /\ fs[GdbDir(up[u].source)] = 0

\* The paths cleanup_gdb is meant for: a .gdb directory or an extraction
\* directory.
CleanupArgs == {p \in Paths : p.kind \in {"extract", "gdb"}}

\* C14: cleanup_gdb never raises (no upload is ended by its cleanup), leaves
\* the filesystem as it is when the cleanup path does not exist, and after a
\* cleanup that removed the tree a second cleanup of the same path changes
\* nothing.
C14_CleanupIdempotent ==
    /\ \A u \in DOMAIN up : up[u].why /= "cleanup"
    /\ fs /= FsIdle =>
        \A p \in CleanupArgs, rm \in RmOutcomes :
            LET once == CleanupGdb(fs, p, rm)
                twice == CleanupGdb(once.fs, p, rm)
            IN
            /\ ~once.raised /\ ~twice.raised
            /\ fs[CleanupPath(p)] = 0 => once.fs = fs
            /\ once.found = "removed" =>
                /\ once.fs[CleanupPath(p)] = 0
                /\ twice.found = "absent"
            /\ twice.fs = once.fs

\* Two uploads of one source both ran their cleanup task: the first removed
\* the extraction directory, the second found it gone and still finished.
C14_Witness ==
    /\ up /= UpIdle
    /\ up[1].source = up[2].source
    /\ up[1].pc = "done" /\ up[1].cleaned = "removed"
    /\ up[2].pc = "done" /\ up[2].cleaned = "absent"
    /\ fs[ExtractDir(up[1].source)] = 0

\* C15: no upload overwrites, reads or deletes what another upload still
\* uses: while an upload is saving, its zip holds its own data; from its
\* extraction until its background task has read the layer, the extraction
\* directory holds its own data; and the data a task reads is its own.
C15_UploadIsolation ==
    \A u \in DOMAIN up :
        /\ up[u].pc = "saving" => fs[ZipPath(up[u].source, up[u].file)] = u
        /\ up[u].pc \in {"creating", "accepted"} =>
            /\ fs[ExtractDir(up[u].source)] = u
            /\ fs[GdbDir(up[u].source)] = u
        /\ up[u].read_from \in {0, u}

\* C21: a batch whose total_records is known never has more processed_records
\* than total_records.
C21_ProcessedWithinTotal ==
    \A u \in DOMAIN up :
        up[u].total_records /= <<>> =>
            up[u].processed_records <= up[u].total_records[1]

ProcessorRan(u) ==
    \/ up[u].pc \in {"bg_unlink", "bg_cleanup", "done", "bg_aborted"}
    \/ up[u].read_from /= 0
    \/ up[u].processed_records > 0
    \/ up[u].batch \in {"completed", "failed"}

BatchIds == {"b1", "b2"}
Tasks == {"t1", "t2"}

\* A row some way into its stream.
BusyBatch ==
    [NewBatch EXCEPT !.processed_records = 2, !.new_records = 1,
                     !.failed_records = 1]

Optional(S) == {<<>>} \cup {<<v>> : v \in S}

UpdateCalls0 ==
    {[op |-> "update", b |-> b, p |-> p, n |-> n, d |-> d, f |-> f,
      total |-> 0, msg |-> <<>>] :
        b \in BatchIds, p \in 1..MaxDelta, n \in Optional(1..MaxDelta),
        d \in Optional({1}), f \in Optional({1})}

CompleteCalls0 ==
    {[op |-> "complete", b |-> b, p |-> 0, n |-> <<>>, d |-> <<>>, f |-> <<>>,
      total |-> t, msg |-> <<>>] : b \in BatchIds, t \in 0..MaxDelta}

FailCalls0 ==
    {[op |-> "fail", b |-> b, p |-> 0, n |-> <<>>, d |-> <<>>, f |-> <<>>,
      total |-> 0, msg |-> <<"boom">>] : b \in BatchIds}

StoreCalls == UpdateCalls0 \cup CompleteCalls0 \cup FailCalls0

\* The row a call's statement writes, given the row it selects.
StoreWrite(row, c) ==
    CASE c.op = "update" -> UpdateBatchProgress(row, c.p, c.n, c.d, c.f)
      [] c.op = "complete" -> CompleteBatchWrite(row, c.total)
      [] OTHER -> FailBatchWrite(row, c.msg[1])

InitStore ==
    /\ StreamIdle
    /\ pub = PubIdle
    /\ vc = VcIdle /\ up = UpIdle /\ fs = FsIdle /\ mq = MqIdle
    /\ crs = CrsIdle /\ enc = EncIdle /\ db = DbIdle
    /\ \E first \in {NewBatch, BusyBatch}, todo \in [Tasks -> StoreCalls] :
        LET rows == [b \in BatchIds |-> IF b = "b1" THEN first ELSE NewBatch] IN
        st = [init |-> rows, rows |-> rows, todo |-> todo,
              done |-> {}, log |-> <<>>]

\* Task t's statement runs: `WHERE batch_id = $1` selects one row, the
\* statement writes it in one step, and the call returns or raises.
StoreCall(t) ==
    /\ st /= StIdle
    /\ t \notin st.done
    /\ \E so \in StoreOutcomes :
        LET c == st.todo[t] IN
        st' = [st EXCEPT
                 !.rows = IF Applied(so)
                          THEN [@ EXCEPT ![c.b] = StoreWrite(@, c)]
                          ELSE @,
                 !.done = @ \cup {t},
                 !.log = Append(@, [task |-> t, call |-> c, outcome |-> so])]
    /\ UNCHANGED <<streamVars, pub, vc, up, fs, mq, crs, enc, db>>

NextStore == \E t \in Tasks : StoreCall(t)

SpecStore == InitStore /\ [][NextStore]_vars

\* The deltas of the update statements in log that reached row b, summed.
RECURSIVE AppliedDelta(_, _, _)
AppliedDelta(log, b, field) ==
    IF log = <<>> THEN 0
    ELSE LET e == log[1]
             d == IF e.call.op = "update" /\ e.call.b = b /\ Applied(e.outcome)
                  THEN CASE field = "p" -> e.call.p
                         [] field = "n" -> IF e.call.n = <<>> THEN 0 ELSE e.call.n[1]
                         [] field = "d" -> IF e.call.d = <<>> THEN 0 ELSE e.call.d[1]
                         [] OTHER -> IF e.call.f = <<>> THEN 0 ELSE e.call.f[1]
                  ELSE 0
         IN d + AppliedDelta(Tail(log), b, field)

OnlyUpdates(log) == \A i \in 1..Len(log) : log[i].call.op = "update"

\* After any interleaving of update statements every row holds its first
\* counters plus each executed delta once, and nothing else of it has moved.
TotalsAdditive ==
    (st /= StIdle /\ OnlyUpdates(st.log)) =>
        \A b \in BatchIds :
            st.rows[b] =
                [st.init[b] EXCEPT
                    !.processed_records = @ + AppliedDelta(st.log, b, "p"),
                    !.new_records = @ + AppliedDelta(st.log, b, "n"),
                    !.duplicate_records = @ + AppliedDelta(st.log, b, "d"),
                    !.failed_records = @ + AppliedDelta(st.log, b, "f")]

\* One executed update statement, whatever ran before it: the four counters of
\* its row grow by the deltas given, an omitted delta adds nothing, and the
\* status, timestamp and error of the row and all of every other row stay.
UpdateStepAdditive ==
    (st /= StIdle /\ st' /= st) =>
        LET e == st'.log[Len(st'.log)]
            c == e.call
        IN  (c.op = "update") =>
                \A b \in BatchIds :
                    IF b = c.b /\ Applied(e.outcome)
                    THEN /\ st'.rows[b].processed_records
                                = st.rows[b].processed_records + c.p
                         /\ st'.rows[b].new_records = st.rows[b].new_records
                                + (IF c.n = <<>> THEN 0 ELSE c.n[1])
                         /\ st'.rows[b].duplicate_records = st.rows[b].duplicate_records
                                + (IF c.d = <<>> THEN 0 ELSE c.d[1])
                         /\ st'.rows[b].failed_records = st.rows[b].failed_records
                                + (IF c.f = <<>> THEN 0 ELSE c.f[1])
                         /\ st'.rows[b].status = st.rows[b].status
                         /\ st'.rows[b].completed_at = st.rows[b].completed_at
                         /\ st'.rows[b].error = st.rows[b].error
                    ELSE st'.rows[b] = st.rows[b]

\* C22: update_batch_progress(b, p, n, d, f) adds p, n, d, f to the four
\* counters of batch b in one atomic increment and never overwrites a running
\* total; an omitted delta leaves its counter; status, timestamp and error of
\* b and every field of every other batch are unchanged; and when two tasks
\* issue updates concurrently, in any interleaving, every executed delta takes
\* effect exactly once.
C22_AdditiveUpdates == []TotalsAdditive /\ [][UpdateStepAdditive]_vars

\* Both tasks have updated the busy row b1, the second without a new-count.
C22_Witness ==
    /\ st /= StIdle
    /\ st.done = Tasks
    /\ st.init["b1"] = BusyBatch
    /\ \A i \in 1..2 : st.log[i].call.op = "update" /\ st.log[i].call.b = "b1"
                        /\ st.log[i].outcome = "ok"
    /\ st.log[1].call.n /= <<>> /\ st.log[2].call.n = <<>>
    /\ st.rows["b1"].processed_records
            = 2 + st.log[1].call.p + st.log[2].call.p
    /\ st.rows["b2"] = NewBatch

CountersNotLowered ==
    /\ batch'.processed_records >= batch.processed_records
    /\ batch'.new_records >= batch.new_records
    /\ batch'.duplicate_records >= batch.duplicate_records
    /\ batch'.failed_records >= batch.failed_records

\* C23: across every tracker operation of a stream (each
\* update_batch_progress, then complete_batch or fail_batch) each of
\* processed_records, new_records, duplicate_records and failed_records is at
\* least its previous value; the terminal write of complete_batch never
\* lowers processed_records.
C23_CountersMonotone == [][CountersNotLowered]_vars

\* A stream of two chunks with a failed row has been completed.
C23_Witness ==
    /\ batch.status = "completed"
    /\ Len(tracker) = 3
    /\ tracker[3].op = "complete"
    /\ batch.failed_records > 0
    /\ batch.processed_records = total_rows
    /\ batch.processed_records > batch.new_records

EnvelopeFields ==
    {"batch_id", "source_type", "source_file", "source_row_number", "raw_data"}

EmptyRows(from, to) == {k \in from..to : outcomes[k] = "empty_geometry"}

\* No message carries the number of a feature without geometry.
EmptyNeverPublished ==
    \A k \in EmptyRows(1, Len(outcomes)) :
        \A i \in DOMAIN published : published[i].row /= k

\* The features without geometry of the chunk under way are in chunk_failed,
\* and those of a completed batch are in its failed_records.
EmptyCounted ==
    /\ pc \in {"rows", "update"} =>
        chunk_failed >= Cardinality(EmptyRows(total_processed + 1, Len(outcomes)))
    /\ batch.status = "completed" =>
        batch.failed_records >= Cardinality(EmptyRows(1, Len(outcomes)))

\* The step that meets a feature without geometry adds one to chunk_failed,
\* publishes nothing, raises nothing and moves on to the next feature or to
\* the chunk's progress update.
EmptyStep ==
    (Len(outcomes') = Len(outcomes) + 1
        /\ outcomes'[Len(outcomes')] = "empty_geometry") =>
            /\ path = "gdb"
            /\ chunk_failed' = chunk_failed + 1
            /\ published' = published
            /\ cause' = cause /\ cause = NoExc
            /\ pc' = IF pos' < chunk_len THEN "rows" ELSE "update"

\* C27: on the geodatabase path a feature whose geometry is null or empty is
\* never published, is counted once in its chunk's failed count, and does not
\* keep the following features from being processed or the batch from
\* completing.
C27_EmptyGeometrySkipped ==
    [](EmptyNeverPublished /\ EmptyCounted) /\ [][EmptyStep]_vars

\* A feature without geometry, then a published one, and the batch completed.
C27_Witness ==
    /\ path = "gdb"
    /\ outcomes = <<"empty_geometry", "published">>
    /\ Len(published) = 1
    /\ published[1].row = 2
    /\ batch.status = "completed"
    /\ batch.processed_records = 2
    /\ batch.failed_records = 1

\* ------------------------------------------- CRS normalisation, on its own
WISCONSIN_CRS == "EPSG:3071"

\* What gdf.crs.to_string() can give for a layer that declares a CRS.
CrsNames == {"EPSG:3071", "EPSG:4326", "EPSG:3070", "EPSG:26916"}

\* A geometry of the layer: its kind and the reprojections its coordinates
\* have gone through since they were read.
Geometries == [kind : {"polygon", "empty", "null"}, moved : {<<>>}]

RECURSIVE SeqsUpTo(_, _)
SeqsUpTo(S, n) ==
    IF n = 0 THEN {<<>>}
    ELSE LET shorter == SeqsUpTo(S, n - 1) IN
         shorter \cup {Append(s, x) : s \in shorter, x \in S}

GeoDataFrames ==
    [crs : Optional(CrsNames), geometry : SeqsUpTo(Geometries, MaxRows)]

\* GeoDataFrame.set_crs(crs, inplace=True): declares, moves nothing.
SetCrs(gdf, to) == [gdf EXCEPT !.crs = <<to>>]

\* GeoDataFrame.to_crs(crs): every geometry with coordinates is moved from
\* the declared CRS to the new one.
ToCrs(gdf, to) ==
    [crs |-> <<to>>,
     geometry |->
        [i \in DOMAIN gdf.geometry |->
            IF gdf.geometry[i].kind = "null" THEN gdf.geometry[i]
            ELSE [gdf.geometry[i] EXCEPT
                    !.moved = Append(@, <<gdf.crs[1], to>>)]]]

TransformToWisconsinCrs_NoneLeftUnset(gdf) ==
    IF gdf.crs = <<>> \/ gdf.crs[1] = WISCONSIN_CRS THEN gdf
    ELSE ToCrs(gdf, WISCONSIN_CRS)

TransformToWisconsinCrs(gdf) ==
    IF gdf.crs = <<>> THEN SetCrs(gdf, WISCONSIN_CRS)
    ELSE LET current_crs == gdf.crs[1] IN
         IF current_crs = WISCONSIN_CRS \/ current_crs = "EPSG:3071" THEN gdf
         ELSE ToCrs(gdf, WISCONSIN_CRS)

InitCrs ==
    /\ StreamIdle
    /\ pub = PubIdle
    /\ vc = VcIdle /\ up = UpIdle /\ fs = FsIdle /\ mq = MqIdle
    /\ st = StIdle /\ enc = EncIdle /\ db = DbIdle
    /\ \E gdf \in GeoDataFrames :
        crs = [pc |-> "call", gdf |-> gdf, result |-> <<>>]

TransformCall ==
    /\ crs /= CrsIdle
    /\ crs.pc = "call"
    /\ crs' = [crs EXCEPT !.pc = "returned",
                          !.result = <<TransformToWisconsinCrs(crs.gdf)>>]
    /\ UNCHANGED <<streamVars, pub, vc, up, fs, mq, st, enc, db>>

NextCrs == TransformCall

SpecCrs == InitCrs /\ [][NextCrs]_vars

Reprojected(before, after) ==
    /\ Len(after) = Len(before)
    /\ \A i \in DOMAIN before :
        before[i].kind /= "null" => after[i].moved /= before[i].moved

\* C28: transform_to_wisconsin_crs always returns data whose CRS is
\* EPSG:3071 and reprojects the geometries iff the source declares a CRS
\* other than the target; a source already in the target comes back
\* unchanged, and a source without CRS gets the target declared with its
\* geometries unchanged and no error.
C28_CrsNormalisation ==
    (crs /= CrsIdle /\ crs.pc = "returned") =>
        LET gdf == crs.gdf
            out == crs.result[1]
            differs == gdf.crs /= <<>> /\ gdf.crs[1] /= "EPSG:3071"
        IN  /\ crs.result /= <<>>
            /\ out.crs = <<"EPSG:3071">>
            /\ differs =>
                /\ Reprojected(gdf.geometry, out.geometry)
                /\ \A i \in DOMAIN gdf.geometry :
                    /\ out.geometry[i].kind = gdf.geometry[i].kind
                    /\ gdf.geometry[i].kind /= "null" =>
                        out.geometry[i].moved = <<<<gdf.crs[1], "EPSG:3071">>>>
            /\ ~differs => out.geometry = gdf.geometry

\* A layer without CRS holding a polygon and a null geometry has come back
\* declared and untouched.
C28_Witness ==
    /\ crs /= CrsIdle
    /\ crs.pc = "returned"
    /\ crs.gdf.crs = <<>>
    /\ Len(crs.gdf.geometry) = 2
    /\ crs.gdf.geometry[1].kind = "polygon"
    /\ crs.gdf.geometry[2].kind = "null"
    /\ crs.result[1].crs = <<"EPSG:3071">>
    /\ crs.result[1].geometry = crs.gdf.geometry

\* ------------------------------------------- encoding detection, on its own
ConfidenceThreshold == 60   \* percent

\* chardet's answers for a sample: no guess, or a name as chardet spells it.
DetectedEncodings ==
    {<<>>, <<"ascii">>, <<"utf-8">>, <<"ISO-8859-1">>, <<"Windows-1252">>,
     <<"UTF-16">>}

\* Confidence of the guess, in percent.
Confidences == {0, 59, 60, 99}

\* str.lower() on the encoding names in play.
EncLower(e) ==
    CASE e = "ISO-8859-1" -> "iso-8859-1"
      [] e = "Windows-1252" -> "windows-1252"
      [] e = "UTF-16" -> "utf-16"
      [] OTHER -> e

\* The codec Python resolves a name to.
Codec(e) ==
    CASE EncLower(e) \in {"latin-1", "iso-8859-1"} -> "latin-1"
      [] EncLower(e) \in {"cp1252", "windows-1252"} -> "cp1252"
      [] OTHER -> EncLower(e)

Codecs == {"utf-8", "latin-1", "cp1252", "utf-16"}

\* What pd.read_csv(nrows=10) does under each codec: parse, raise a
\* UnicodeError, or raise anything else.  Every byte decodes under latin-1.
Trials ==
    {t \in [Codecs -> {"ok", "unicode_error", "other_error"}] :
        t["latin-1"] /= "unicode_error"}

\* ASCII is treated as UTF-8.
TreatAscii(d) == IF d /= <<>> /\ EncLower(d[1]) = "ascii" THEN <<"utf-8">> ELSE d

DetectedCandidate_StrictThreshold(d, confidence) ==
    IF d /= <<>> /\ confidence > ConfidenceThreshold THEN d ELSE <<>>

\* The head of the chain: the detected encoding when it is trusted.
DetectedCandidate(d, confidence) ==
    IF d /= <<>> /\ confidence >= ConfidenceThreshold THEN d ELSE <<>>

CommonEncodings == <<"utf-8", "latin-1", "cp1252", "iso-8859-1">>

\* The list comprehension that drops names already seen, ignoring case.
RECURSIVE Dedupe(_, _)
Dedupe(s, seen) ==
    IF s = <<>> THEN <<>>
    ELSE IF EncLower(Head(s)) \in seen THEN Dedupe(Tail(s), seen)
         ELSE <<Head(s)>> \o Dedupe(Tail(s), seen \cup {EncLower(Head(s))})

EncodingChain(d, confidence) ==
    Dedupe(DetectedCandidate(TreatAscii(d), confidence) \o CommonEncodings, {})

LastResort == "utf-8"

InitEnc ==
    /\ StreamIdle
    /\ pub = PubIdle
    /\ vc = VcIdle /\ up = UpIdle /\ fs = FsIdle /\ mq = MqIdle
    /\ st = StIdle /\ crs = CrsIdle /\ db = DbIdle
    /\ \E d \in DetectedEncodings, c \in Confidences, t \in Trials :
        /\ (d = <<>> => c = 0)
        /\ enc = [pc |-> "start", detected |-> d, confidence |-> c,
                  trial |-> t, chain |-> <<>>, tried |-> <<>>,
                  result |-> <<>>]

\* detect_encoding up to the loop: sample, guess, build the chain.
BuildChain ==
    /\ enc /= EncIdle
    /\ enc.pc = "start"
    /\ enc' = [enc EXCEPT !.pc = "trying",
                          !.chain = EncodingChain(enc.detected, enc.confidence)]
    /\ UNCHANGED <<streamVars, pub, vc, up, fs, mq, st, crs, db>>

\* One turn of the loop: the trial read under the next candidate returns,
\* or raises and is caught by one of the two except clauses.
TryEncoding ==
    /\ enc /= EncIdle
    /\ enc.pc = "trying"
    /\ Len(enc.tried) < Len(enc.chain)
    /\ LET encoding == enc.chain[Len(enc.tried) + 1]
           r == enc.trial[Codec(encoding)]
       IN  enc' = [enc EXCEPT
                     !.tried = Append(@, [encoding |-> encoding, outcome |-> r]),
                     !.pc = IF r = "ok" THEN "returned" ELSE "trying",
                     !.result = IF r = "ok" THEN <<encoding>> ELSE @]
    /\ UNCHANGED <<streamVars, pub, vc, up, fs, mq, st, crs, db>>

\* The loop ran out of candidates.
AllFailed ==
    /\ enc /= EncIdle
    /\ enc.pc = "trying"
    /\ Len(enc.tried) = Len(enc.chain)
    /\ enc' = [enc EXCEPT !.pc = "returned", !.result = <<LastResort>>]
    /\ UNCHANGED <<streamVars, pub, vc, up, fs, mq, st, crs, db>>

NextEnc == BuildChain \/ TryEncoding \/ AllFailed

SpecEnc == InitEnc /\ [][NextEnc]_vars

\* The chain as the claim words it: the trusted guess first, then the four
\* common names less the one that repeats the guess.
ClaimedChain(d, confidence) ==
    LET g == IF d = <<"ascii">> THEN <<"utf-8">> ELSE d
        head == IF g /= <<>> /\ confidence >= 60 THEN g ELSE <<>>
        NotHead(e) == head = <<>> \/ EncLower(e) /= EncLower(head[1])
    IN  head \o SelectSeq(<<"utf-8", "latin-1", "cp1252", "iso-8859-1">>, NotHead)

EveryCandidateFailed ==
    /\ enc.pc = "returned"
    /\ Len(enc.tried) = Len(enc.chain)
    /\ \A i \in DOMAIN enc.tried : enc.tried[i].outcome /= "ok"

\* detect_encoding returns a name; the candidates are the claimed chain,
\* tried in order; the result is the first one whose trial read succeeds.
ChainFollowed ==
    /\ enc.pc /= "start" => enc.chain = ClaimedChain(enc.detected, enc.confidence)
    /\ \A i \in DOMAIN enc.tried :
        /\ enc.tried[i].encoding = enc.chain[i]
        /\ i < Len(enc.tried) => enc.tried[i].outcome /= "ok"
    /\ enc.pc = "returned" =>
        /\ enc.result /= <<>>
        /\ ~EveryCandidateFailed =>
            /\ enc.tried[Len(enc.tried)].outcome = "ok"
            /\ enc.result = <<enc.tried[Len(enc.tried)].encoding>>

\* An encoding under which every byte sequence decodes to text that encodes
\* back to the same bytes.
BytePreserving(e) == Codec(e) = "latin-1"

C31_TerminalFieldsAgree ==
    /\ batch.status \in {"processing", "completed", "failed"}
    /\ batch.status = "processing" =>
        batch.completed_at = "NULL" /\ batch.error = <<>>
    /\ batch.status = "completed" =>
        batch.completed_at = "set" /\ batch.error = <<>>
    /\ batch.status = "failed" =>
        batch.completed_at = "set" /\ batch.error /= <<>>
    /\ batch.error /= <<>> => batch.status = "failed"

\* complete_batch committed but raised, and fail_batch then marked the
\* completed row failed.
C31_Witness ==
    /\ batch.status = "failed"
    /\ batch.error /= <<>>
    /\ Len(tracker) >= 2
    /\ tracker[Len(tracker) - 1].op = "complete"
    /\ tracker[Len(tracker) - 1].outcome = "lost_ack"
    /\ tracker[Len(tracker)].op = "fail"
    /\ batch.processed_records = total_rows

\* A get_rabbitmq_connection call that found the cached connection open
\* returns the cached channel and creates nothing; one that found it missing
\* or closed opens at most one connection, and when it returns it has opened
\* exactly one, cached it, and returns the channel opened on it.
SingletonStep ==
    mq'.last /= mq.last =>
        LET r == mq'.last[1]
            open == mq.conn /= 0 /\ ~mq.conn_closed
        IN  /\ open =>
                /\ r.result = "returned"
                /\ r.chan = mq.chan
                /\ mq'.created = mq.created
                /\ mq'.conn = mq.conn /\ mq'.chan = mq.chan
            /\ ~open =>
                /\ mq'.created \in {mq.created, mq.created + 1}
                /\ r.result = "returned" =>
                    /\ mq'.created = mq.created + 1
                    /\ mq'.conn = mq'.created
                    /\ ~mq'.conn_closed
                    /\ r.chan = mq'.conn

\* C32: while the cached connection is open, every call to
\* get_rabbitmq_connection returns the same channel and creates no new
\* connection; when the cached connection reports closed, the next call
\* creates exactly one new connection and returns its channel.
C32_ChannelSingleton == [][SingletonStep]_vars

\* The second connection was made after the first closed, and a later call
\* got its channel again without a third being made.
C32_Witness ==
    /\ mq.pc = "ready"
    /\ mq.created = 2
    /\ mq.conn = 2 /\ ~mq.conn_closed
    /\ mq.last /= <<>>
    /\ mq.last[1].result = "returned"
    /\ ~mq.last[1].fresh
    /\ mq.last[1].chan = 2

\* C38: after any sequence of get_rabbitmq_connection calls, including calls
\* that raised while opening the connection, opening the channel or declaring
\* queues, every later call that returns normally returns a channel that was
\* opened on the currently cached connection and on which the queue
\* declarations completed.
C38_NeverHalfInitialised ==
    \A i \in 1..Len(mq.last) :
        mq.last[i].result = "returned" =>
            /\ mq.last[i].chan /= 0
            /\ mq.last[i].chan = mq.last[i].conn
            /\ mq.last[i].declared

\* ------------------------------------------------- database pool, on its own
\* The module global _db_pool of shared.database and the coroutines calling
\* get_db_pool and close_db_pool.  Pools are numbered in order of creation;
\* db.pool is the global (0 for None).  A coroutine runs without interruption
\* between two awaits.
DbTasks == {"t1", "t2"}

DbTaskIdle == [pc |-> "idle", got |-> 0, closing |-> 0]

InitDb ==
    /\ StreamIdle
    /\ pub = PubIdle
    /\ vc = VcIdle /\ up = UpIdle /\ fs = FsIdle /\ mq = MqIdle
    /\ st = StIdle /\ crs = CrsIdle /\ enc = EncIdle
    /\ db = [pool |-> 0, made |-> 0, invoked |-> 0, handed |-> {},
             task |-> [t \in DbTasks |-> DbTaskIdle]]

\* get_db_pool() up to its await: `if _db_pool is None` and the call of
\* asyncpg.create_pool, or `return _db_pool` straight away.
GetDbPool(t) ==
    /\ db /= DbIdle
    /\ db.task[t].pc = "idle"
    /\ IF db.pool = 0
       THEN /\ db.made + Cardinality({u \in DbTasks : db.task[u].pc = "creating"})
                  < MaxPools
            /\ db.invoked < MaxPools
            /\ db' = [db EXCEPT !.invoked = @ + 1,
                                !.task[t] = [@ EXCEPT !.pc = "creating", !.got = 0]]
       ELSE db' = [db EXCEPT !.handed = @ \cup {db.pool},
                             !.task[t] = [@ EXCEPT !.got = db.pool]]
    /\ UNCHANGED <<streamVars, pub, vc, up, fs, mq, st, crs, enc>>

\* asyncpg.create_pool returns or raises; on return the global is assigned
\* and returned.
CreatePoolEnds(t) ==
    /\ db /= DbIdle
    /\ db.task[t].pc = "creating"
    /\ \E r \in {"ok", "error"} :
        IF r = "ok"
        THEN LET id == db.made + 1 IN
             db' = [db EXCEPT !.made = id, !.pool = id,
                              !.handed = @ \cup {id},
                              !.task[t] = [@ EXCEPT !.pc = "idle", !.got = id]]
        ELSE db' = [db EXCEPT !.task[t] = [@ EXCEPT !.pc = "idle"]]
    /\ UNCHANGED <<streamVars, pub, vc, up, fs, mq, st, crs, enc>>

\* close_db_pool() up to its await: `if _db_pool is not None` and the call
\* of _db_pool.close().
CloseDbPool(t) ==
    /\ db /= DbIdle
    /\ db.task[t].pc = "idle"
    /\ db.pool /= 0
    /\ db' = [db EXCEPT !.task[t] = [@ EXCEPT !.pc = "closing", !.closing = db.pool]]
    /\ UNCHANGED <<streamVars, pub, vc, up, fs, mq, st, crs, enc>>

\* _db_pool.close() returns and `_db_pool = None` runs; the count of pools
\* made and handed out since the last close starts again.
ClosePoolEnds(t) ==
    /\ db /= DbIdle
    /\ db.task[t].pc = "closing"
    /\ db' = [db EXCEPT !.pool = 0, !.invoked = 0, !.handed = {},
                        !.task[t] = [@ EXCEPT !.pc = "idle", !.closing = 0]]
    /\ UNCHANGED <<streamVars, pub, vc, up, fs, mq, st, crs, enc>>

NextDb ==
    \E t \in DbTasks :
        \/ GetDbPool(t)
        \/ CreatePoolEnds(t)
        \/ CloseDbPool(t)
        \/ ClosePoolEnds(t)

SpecDb == InitDb /\ [][NextDb]_vars

\* C33: between two close_db_pool calls asyncpg.create_pool is invoked at
\* most once and every get_db_pool call returns that same pool, also when
\* several tasks call get_db_pool before the first creation has finished.
C33_SinglePool ==
    db /= DbIdle =>
        /\ db.invoked <= 1
        /\ Cardinality(db.handed) <= 1

\* Progress updates issued so far, returned or not.
UpdatesIssued == Cardinality({i \in DOMAIN tracker : tracker[i].op = "update"})

\* Rows of the first k chunks.
RowsThrough(k) == IF k * chunk_size < total_rows THEN k * chunk_size ELSE total_rows

\* With n updates issued, every row of chunks 1..n has been attempted and no
\* row beyond chunk n+1 has; the n-th update carries the length of chunk n.
ChunksInStep ==
    /\ RowsThrough(UpdatesIssued) <= Len(outcomes)
    /\ Len(outcomes) <= RowsThrough(UpdatesIssued + 1)
    /\ \A i \in DOMAIN published : published[i].row <= RowsThrough(UpdatesIssued + 1)
    /\ \A i \in DOMAIN tracker :
        tracker[i].op = "update" =>
            LET k == Cardinality({j \in 1..i : tracker[j].op = "update"}) IN
            tracker[i].processed = RowsThrough(k) - RowsThrough(k - 1)

\* complete_batch comes after the update of the last chunk, all updates
\* having returned.
CompleteComesLast ==
    \A i \in DOMAIN tracker :
        tracker[i].op = "complete" =>
            /\ RowsThrough(UpdatesIssued) = total_rows
            /\ Len(outcomes) = total_rows
            /\ \A j \in 1..(i - 1) :
                tracker[j].op = "update" /\ tracker[j].outcome = "ok"
            /\ \A j \in DOMAIN tracker : j > i => tracker[j].op = "fail"

\* C34: within one stream the progress update for chunk k is issued after
\* every publish attempt of chunk k and before any publish attempt of chunk
\* k+1, and complete_batch only after the progress update of the last chunk;
\* so the batch's processed_records is never more than the rows the stream
\* has attempted.
C34_SequentialChunks ==
    /\ ChunksInStep
    /\ CompleteComesLast
    /\ batch.processed_records <= Len(outcomes)

\* Three rows in chunks of two: update, update, complete.
C34_Witness ==
    /\ chunk_size = 2 /\ total_rows = 3
    /\ Len(tracker) = 3
    /\ tracker[1].op = "update" /\ tracker[1].processed = 2
    /\ tracker[2].op = "update" /\ tracker[2].processed = 1
    /\ tracker[3].op = "complete"
    /\ Len(published) = 3
    /\ batch.status = "completed"
    /\ batch.processed_records = 3

\* Rows for which publish_message returned true.
AcceptedRows == {k \in DOMAIN outcomes : outcomes[k] = "published"}

\* C35: when a batch has status completed, its new_records is the number of
\* rows for which publish_message returned true and its failed_records the
\* number of all other rows (failed transformation, publish returned false,
\* publish raised); no row counts as succeeded without a successful publish
\* and none counts twice.
C35_SuccessOnlyWhenAccepted ==
    batch.status = "completed" =>
        /\ Len(outcomes) = total_rows
        /\ batch.new_records = Cardinality(AcceptedRows)
        /\ batch.failed_records = Len(outcomes) - Cardinality(AcceptedRows)
        /\ batch.new_records + batch.failed_records = total_rows
        /\ \A k \in AcceptedRows :
            Cardinality({i \in DOMAIN published :
                            published[i].row = k /\ published[i].outcome = "published"}) = 1

\* A completed CSV batch of three rows: one refused by the publisher, one
\* accepted, one whose publish raised.
C35_Witness ==
    /\ path = "csv"
    /\ batch.status = "completed"
    /\ outcomes = <<"publish_false", "published", "publish_raise">>
    /\ batch.new_records = 1
    /\ batch.failed_records = 2

\* The deltas of the update calls in log for row b that returned to their
\* caller, summed.
RECURSIVE ReturnedDelta(_, _, _)
ReturnedDelta(log, b, field) ==
    IF log = <<>> THEN 0
    ELSE LET e == log[1]
             d == IF e.call.op = "update" /\ e.call.b = b /\ e.outcome = "ok"
                  THEN CASE field = "p" -> e.call.p
                         [] field = "n" -> IF e.call.n = <<>> THEN 0 ELSE e.call.n[1]
                         [] field = "d" -> IF e.call.d = <<>> THEN 0 ELSE e.call.d[1]
                         [] OTHER -> IF e.call.f = <<>> THEN 0 ELSE e.call.f[1]
                  ELSE 0
         IN d + ReturnedDelta(Tail(log), b, field)

CompleteApplied(b) ==
    \E i \in DOMAIN st.log :
        /\ st.log[i].call.op = "complete" /\ st.log[i].call.b = b
        /\ Applied(st.log[i].outcome)

\* One complete_batch or fail_batch call: it writes the fields it names on
\* the row it names and nothing else, on that row or any other.
TerminalStep ==
    (st /= StIdle /\ st' /= st) =>
        LET e == st'.log[Len(st'.log)]
            c == e.call
        IN  (c.op \in {"complete", "fail"}) =>
                \A b \in BatchIds :
                    IF b = c.b /\ Applied(e.outcome)
                    THEN /\ st'.rows[b].new_records = st.rows[b].new_records
                         /\ st'.rows[b].duplicate_records = st.rows[b].duplicate_records
                         /\ st'.rows[b].failed_records = st.rows[b].failed_records
                         /\ st'.rows[b].completed_at = "set"
                         /\ IF c.op = "fail"
                            THEN /\ st'.rows[b].status = "failed"
                                 /\ st'.rows[b].error = c.msg
                                 /\ st'.rows[b].processed_records
                                        = st.rows[b].processed_records
                            ELSE /\ st'.rows[b].status = "completed"
                                 /\ st'.rows[b].error = st.rows[b].error
                                 /\ st'.rows[b].processed_records = c.total
                    ELSE st'.rows[b] = st.rows[b]

\* Whatever terminal writes ran, the counters of a row are what the updates
\* the store executed have added to it (processed_records unless a
\* complete_batch has written it).
AccumulatedKept ==
    st /= StIdle =>
        \A b \in BatchIds :
            /\ st.rows[b].new_records
                = st.init[b].new_records + AppliedDelta(st.log, b, "n")
            /\ st.rows[b].duplicate_records
                = st.init[b].duplicate_records + AppliedDelta(st.log, b, "d")
            /\ st.rows[b].failed_records
                = st.init[b].failed_records + AppliedDelta(st.log, b, "f")
            /\ ~CompleteApplied(b) =>
                st.rows[b].processed_records
                    = st.init[b].processed_records + AppliedDelta(st.log, b, "p")

\* A fail_batch that the store executed leaves the row with the counters of
\* the updates that had returned to their caller before it.
FailKeepsReturned ==
    (st /= StIdle /\ st' /= st) =>
        LET e == st'.log[Len(st'.log)]
            b == e.call.b
        IN  (e.call.op = "fail" /\ Applied(e.outcome) /\ ~CompleteApplied(b)) =>
                /\ st'.rows[b].processed_records
                    = st.init[b].processed_records + ReturnedDelta(st.log, b, "p")
                /\ st'.rows[b].new_records
                    = st.init[b].new_records + ReturnedDelta(st.log, b, "n")
                /\ st'.rows[b].duplicate_records
                    = st.init[b].duplicate_records + ReturnedDelta(st.log, b, "d")
                /\ st'.rows[b].failed_records
                    = st.init[b].failed_records + ReturnedDelta(st.log, b, "f")

\* C36 as stated: fail_batch changes only status, completed_at and error of
\* its batch and complete_batch only status, completed_at and
\* processed_records, neither touching another batch; the counters are those
\* of the chunks reported before, a chunk whose progress update did not
\* complete not being counted.
C36_UnreturnedNotCounted == [][TerminalStep /\ FailKeepsReturned]_vars

\* C36: fail_batch changes only status, completed_at and error of its batch
\* and complete_batch only status, completed_at and processed_records,
\* neither touching another batch; the counters stay as accumulated by the
\* progress updates the store executed, which includes an update that was
\* committed although its call raised.
C36_TerminalWritesPreserve == []AccumulatedKept /\ [][TerminalStep]_vars

\* An update of the busy row b1 was committed but raised, and fail_batch
\* then marked the row failed with the chunk still counted.
C36_Witness ==
    /\ st /= StIdle
    /\ st.init["b1"] = BusyBatch
    /\ Len(st.log) = 2
    /\ st.log[1].call.op = "update" /\ st.log[1].call.b = "b1"
    /\ st.log[1].outcome = "lost_ack"
    /\ st.log[2].call.op = "fail" /\ st.log[2].call.b = "b1"
    /\ st.log[2].outcome = "ok"
    /\ st.rows["b1"].status = "failed"
    /\ st.rows["b1"].processed_records = 2 + st.log[1].call.p
    /\ st.rows["b2"] = NewBatch

\* C37: for every PARCEL CSV that passes validate_csv_columns, a row holding
\* non-empty values in its geometry columns is accepted by record validation;
\* a file is never let through by the gate and then has its rows refused for
\* missing geometry fields because its column names differ in letter case
\* from the record's field names.
C37_GateAgreesWithRecord ==
    (vc.pc = "returned" /\ vc.source_type = "PARCEL" /\ vc.row /= "none") =>
        vc.row = "accepted"

====
